---- MODULE Spec2Model ----
(***************************************************************************)
(* Topic-drift detection and topic-title suggestion pipeline.              *)
(*                                                                         *)
(*   zerver/lib/topic_drift.py          normalize_text,                    *)
(*                                      calculate_word_overlap,            *)
(*                                      detect_topic_drift                 *)
(*   zerver/lib/topic_title_llm.py      suggest_topic_title,               *)
(*                                      check_and_suggest_topic_title      *)
(*   zerver/worker/topic_title_improver.py                                 *)
(*                                      TopicTitleImproverWorker.consume   *)
(*                                                                         *)
(* A text is a sequence of one-character strings.  A similarity score      *)
(* intersection / union is kept as the pair <<intersection, union>> and a  *)
(* threshold is given in hundredths (0.15 is 15), so that                  *)
(* "score >= threshold" is 100 * intersection >= threshold * union.        *)
(***************************************************************************)
EXTENDS Integers, Sequences, FiniteSets, TLC

VARIABLES
    \* ---- the drift detector applied to drawn inputs (SpecDrift)
    dTitle,      \* topic_name argument
    dWindow,     \* recent_messages argument
    dNew,        \* new_message argument
    dThr,        \* min_similarity_threshold, in hundredths
    dMin,        \* min_off_topic_messages
    dPc,         \* "ready" before the call, "done" after it
    dResult,     \* the verdict returned, "none" before the call
    \* ---- the message store, the queue and the workers (Spec)
    messages,    \* the Message table: messages[id], ids in sending order
    streams,     \* the Stream table: streams[id]
    queue,       \* the events of the topic_title_improver queue not yet consumed
    pc,          \* pc[w]: where worker w is inside consume
    job,         \* job[w]: the locals of worker w's current (or last) consume call
    sink,        \* the notifications delivered to clients, in order
    llmMode,     \* "failing": the LLM client fails on every call; "free": it may answer
    envLeft,     \* edits, moves, deletions and malformed deliveries still allowed
    \* ---- calculate_word_overlap applied to drawn texts (SpecSim)
    sX, sY,      \* the two texts
    sPc,         \* "ready" before the calls, "done" after them
    sXY, sYX,    \* calculate_word_overlap(sX, sY) and calculate_word_overlap(sY, sX)
    \* ---- suggest_topic_title applied to drawn completions (SpecSanitize)
    rRaw,        \* completion.choices[0].message.content
    rPc,         \* "ready" before the call, "done" after it
    rTitle,      \* what suggest_topic_title returned
    \* ---- the prompt built from drawn windows (SpecPrompt)
    pRecent,     \* recent_messages as the window query returns it, newest first
    pContent,    \* message.content of the triggering message
    pPc,         \* "ready" before the call, "done" after it
    pPrompt      \* the numbered entries written into the prompt

driftVars == <<dTitle, dWindow, dNew, dThr, dMin, dPc, dResult>>

pipeVars == <<messages, streams, queue, pc, job, sink, llmMode, envLeft>>

simVars == <<sX, sY, sPc, sXY, sYX>>

sanVars == <<rRaw, rPc, rTitle>>

promptVars == <<pRecent, pContent, pPc, pPrompt>>

pureVars == <<driftVars, simVars, sanVars, promptVars>>

vars == <<driftVars, pipeVars, simVars, sanVars, promptVars>>

(***************************************************************************)
(* Characters                                                              *)
(***************************************************************************)
Whitespace == {" "}
LowerLetters == {"a", "b", "c"}
UpperLetters == {"A"}
WordChars == LowerLetters \cup UpperLetters \cup {"_"}
Punctuation == {"!", "#", "'", "."}

\* str.lower() on one character
Lower(c) == IF c = "A" THEN "a" ELSE c

\* the text "s" written as characters
T0 == << >>
T1(a) == <<a>>
T2(a, b) == <<a, b>>
T3(a, b, c) == <<a, b, c>>

(***************************************************************************)
(* String primitives of Python used by the program                         *)
(***************************************************************************)
\* str.lower()
LowerText(t) == [i \in 1..Len(t) |-> Lower(t[i])]

\* str.lstrip(chars) / str.rstrip(chars) / str.strip(chars)
RECURSIVE LStripChars(_, _)
LStripChars(t, chars) ==
    IF t = << >> THEN << >>
    ELSE IF Head(t) \in chars THEN LStripChars(Tail(t), chars)
    ELSE t

RECURSIVE RStripChars(_, _)
RStripChars(t, chars) ==
    IF t = << >> THEN << >>
    ELSE IF t[Len(t)] \in chars THEN RStripChars(SubSeq(t, 1, Len(t) - 1), chars)
    ELSE t

StripChars(t, chars) == RStripChars(LStripChars(t, chars), chars)

\* str.strip() with no argument strips whitespace
Strip(t) == StripChars(t, Whitespace)

\* re.sub(r"[^\w\s]", " ", text)
SubPunct(t) ==
    [i \in 1..Len(t) |-> IF t[i] \in WordChars \/ t[i] \in Whitespace THEN t[i] ELSE " "]

\* str.split() with no argument: maximal runs of non-whitespace characters
RECURSIVE SplitFrom(_, _)
SplitFrom(t, cur) ==
    IF t = << >> THEN (IF cur = << >> THEN << >> ELSE <<cur>>)
    ELSE IF Head(t) \in Whitespace
         THEN (IF cur = << >> THEN << >> ELSE <<cur>>) \o SplitFrom(Tail(t), << >>)
         ELSE SplitFrom(Tail(t), Append(cur, Head(t)))

Split(t) == SplitFrom(t, << >>)

\* " ".join(words)
RECURSIVE Join(_)
Join(words) ==
    IF words = << >> THEN << >>
    ELSE IF Len(words) = 1 THEN Head(words)
    ELSE Head(words) \o <<" ">> \o Join(Tail(words))

Range(s) == {s[i] : i \in 1..Len(s)}

\* Python truthiness of a str: "not s" is true of the empty string only
Falsy(t) == t = << >>

(***************************************************************************)
(* zerver/lib/topic_drift.py                                               *)
(***************************************************************************)
normalize_text(text) ==
    LET stripped == Strip(LowerText(text))
        cleaned  == SubPunct(stripped)
        words    == SelectSeq(Split(cleaned), LAMBDA w : w # << >>)
    IN  Join(words)

\* set(normalize_text(text).split())
WordSet(text) == Range(Split(normalize_text(text)))

\* the overlap taken against the words of the first text only
overlap_over_first(text1, text2) ==
    LET words1 == WordSet(text1)
        words2 == WordSet(text2)
    IN  IF words1 = {} \/ words2 = {} THEN <<0, 1>>
        ELSE <<Cardinality(words1 \cap words2), Cardinality(words1)>>

\* the overlap with the union counted on the word lists, not on the sets
overlap_on_lists(text1, text2) ==
    LET list1 == Split(normalize_text(text1))
        list2 == Split(normalize_text(text2))
        intersection == Cardinality(Range(list1) \cap Range(list2))
    IN  IF list1 = << >> \/ list2 = << >> THEN <<0, 1>>
        ELSE <<intersection, Len(list1) + Len(list2) - intersection>>

\* returns <<intersection, union>>; 0.0 is <<0, 1>>
calculate_word_overlap(text1, text2) ==
    LET words1 == WordSet(text1)
        words2 == WordSet(text2)
        intersection == Cardinality(words1 \cap words2)
        union == Cardinality(words1 \cup words2)
    IN  IF words1 = {} \/ words2 = {} THEN <<0, 1>>
        ELSE IF union = 0 THEN <<0, 1>>
        ELSE <<intersection, union>>

\* similarity >= threshold, threshold in hundredths
AtLeast(sim, thr) == 100 * sim[1] >= thr * sim[2]

\* similarity > threshold: the veto with the comparison written strictly
StrictlyAbove(sim, thr) == 100 * sim[1] > thr * sim[2]

\* line 79: "new_message_similarity >= min_similarity_threshold"
OnTopic(sim, thr) == AtLeast(sim, thr)

\* lines 90 and 94: "similarity < min_similarity_threshold"
Below(sim, thr) == ~AtLeast(sim, thr)

\* the empty-topic test without the strip()
OnlyEmpty(t) == t = << >>

\* lines 68 and 87: "not s or not s.strip()"
IsBlank(t) == Falsy(t) \/ Falsy(Strip(t))

\* line 68: the empty-topic test
EmptyTopic(topic_name) == IsBlank(topic_name)

\* the loop over recent_messages without the "continue" of blank entries
RECURSIVE WindowOffTopicNoSkip(_, _, _)
WindowOffTopicNoSkip(topic_name, recent_messages, thr) ==
    IF recent_messages = << >> THEN 0
    ELSE LET msg == Head(recent_messages)
             rest == WindowOffTopicNoSkip(topic_name, Tail(recent_messages), thr)
         IN  IF Below(calculate_word_overlap(topic_name, msg), thr) THEN rest + 1
             ELSE rest

\* lines 83-91: the loop over recent_messages
RECURSIVE WindowOffTopicLoop(_, _, _)
WindowOffTopicLoop(topic_name, recent_messages, thr) ==
    IF recent_messages = << >> THEN 0
    ELSE LET msg == Head(recent_messages)
             rest == WindowOffTopicLoop(topic_name, Tail(recent_messages), thr)
         IN  IF IsBlank(msg) THEN rest
             ELSE IF Below(calculate_word_overlap(topic_name, msg), thr) THEN rest + 1
             ELSE rest

WindowOffTopic(topic_name, recent_messages, thr) ==
    WindowOffTopicLoop(topic_name, recent_messages, thr)

\* the tally with the new message added a second time
CountNewTwice(in_window, new_message_similarity, thr) ==
    IF Below(new_message_similarity, thr) THEN in_window + 2 ELSE in_window

\* lines 93-95: the new message added to the tally
CountNew(in_window, new_message_similarity, thr) ==
    IF Below(new_message_similarity, thr) THEN in_window + 1 ELSE in_window

detect_topic_drift(topic_name, recent_messages, new_message, thr, min_off) ==
    IF EmptyTopic(topic_name) THEN FALSE
    ELSE IF Falsy(recent_messages) /\ Falsy(new_message) THEN FALSE
    ELSE LET new_message_similarity == calculate_word_overlap(topic_name, new_message)
         IN  IF OnTopic(new_message_similarity, thr) THEN FALSE
             ELSE LET in_window == WindowOffTopic(topic_name, recent_messages, thr)
                      off_topic_count == CountNew(in_window, new_message_similarity, thr)
                  IN  off_topic_count >= min_off

\* the defaults of the keyword arguments
DefaultThreshold == 15
DefaultMinOffTopic == 2


(***************************************************************************)
(* The store, the events and the workers                                   *)
(***************************************************************************)
MaxMessages == 2
MaxEnv == 1

Workers == {"w1"}
Users == {"u1", "u2"}
StreamIds == {1}
Realms == {1}
RealmId == CHOOSE r \in Realms : TRUE
Topics == {T1("a"), T1("b")}
Contents == {T1("a"), T1("c")}
\* the messages the users send: who, to which stream and topic, saying what
Sendable ==
    { <<"u1", 1, T1("a"), T1("a")>>, <<"u1", 1, T1("a"), T1("c")>>,
      <<"u2", 1, T1("b"), T1("c")>> }

\* Python's None, for a text and for an identifier
NoneText == <<"None">>
NoneId == 0 - 1

NoMessage == [id |-> 0, present |-> FALSE, content |-> T0, topic |-> T0,
              stream |-> 0, realm |-> 0, sender |-> "nobody"]

NoEvent == [message_id |-> NoneId, stream_id |-> NoneId, realm_id |-> NoneId,
            topic_name |-> NoneText, message_content |-> NoneText]

IdleJob == [event |-> NoEvent, message |-> NoMessage, recent |-> << >>,
            drift |-> "none", dicts |-> << >>, llm_calls |-> 0,
            suggested |-> NoneText, emitted |-> 0, pending |-> << >>,
            delivered |-> 0, txn |-> "none", outcome |-> "none", fault |-> "none"]

\* the function specifications at rest
DriftIdle ==
    /\ dTitle = T0 /\ dWindow = << >> /\ dNew = T0
    /\ dThr = DefaultThreshold /\ dMin = DefaultMinOffTopic
    /\ dPc = "ready" /\ dResult = "none"
SimIdle == sX = T0 /\ sY = T0 /\ sPc = "ready" /\ sXY = <<0, 1>> /\ sYX = <<0, 1>>
SanIdle == rRaw = T0 /\ rPc = "ready" /\ rTitle = NoneText
PromptIdle == pRecent = << >> /\ pContent = T0 /\ pPc = "ready" /\ pPrompt = << >>

\* the pipeline at rest: an empty store, an empty queue, every worker idle
PipeIdle ==
    /\ messages = << >>
    /\ streams = [s \in StreamIds |-> [present |-> TRUE, realm |-> RealmId]]
    /\ queue = {}
    /\ pc = [w \in Workers |-> "idle"]
    /\ job = [w \in Workers |-> IdleJob]
    /\ sink = << >>
    /\ llmMode = "free"
    /\ envLeft = 0

(***************************************************************************)
(* SpecDrift: detect_topic_drift applied to every drawn input              *)
(***************************************************************************)
MaxWindow == 2
MaxMinOff == 3

DriftTitles ==
    { T0, T1(" "), T1("a"), T1("A"), T1("!"), T3("a", " ", "b"), T3("a", "!", "b") }
DriftTexts ==
    { T0, T1(" "), T1("a"), T1("c"), T1("!"), T3("a", " ", "c"), T3("A", ".", "b"),
      T3(" ", "b", " ") }
DriftThresholds == {0, DefaultThreshold, 50, 100}

SeqsUpTo(S, n) == UNION {[1..k -> S] : k \in 0..n}

DriftInit ==
    /\ dTitle \in DriftTitles
    /\ dWindow \in SeqsUpTo(DriftTexts, MaxWindow)
    /\ dNew \in DriftTexts
    /\ dThr \in DriftThresholds
    /\ dMin \in 0..MaxMinOff
    /\ dPc = "ready"
    /\ dResult = "none"
    /\ PipeIdle /\ SimIdle /\ SanIdle /\ PromptIdle

Evaluate ==
    /\ dPc = "ready"
    /\ dResult' = detect_topic_drift(dTitle, dWindow, dNew, dThr, dMin)
    /\ dPc' = "done"
    /\ UNCHANGED <<dTitle, dWindow, dNew, dThr, dMin>>
    /\ UNCHANGED <<pipeVars, simVars, sanVars, promptVars>>

DriftNext == Evaluate

SpecDrift == DriftInit /\ [][DriftNext]_vars

(***************************************************************************)
(* SpecSim: calculate_word_overlap applied to every pair of drawn texts    *)
(***************************************************************************)
MaxText == 3

SimChars == {"a", "b", "A", " ", "!"}
SimTexts == SeqsUpTo(SimChars, MaxText)

SimInit ==
    /\ sX \in SimTexts
    /\ sY \in SimTexts
    /\ sPc = "ready"
    /\ sXY = <<0, 1>>
    /\ sYX = <<0, 1>>
    /\ DriftIdle /\ PipeIdle /\ SanIdle /\ PromptIdle

Compare ==
    /\ sPc = "ready"
    /\ sXY' = calculate_word_overlap(sX, sY)
    /\ sYX' = calculate_word_overlap(sY, sX)
    /\ sPc' = "done"
    /\ UNCHANGED <<sX, sY>>
    /\ UNCHANGED <<driftVars, pipeVars, sanVars, promptVars>>

SimNext == Compare

SpecSim == SimInit /\ [][SimNext]_vars

(***************************************************************************)
(* zerver/lib/topic_title_llm.py                                           *)
(***************************************************************************)
MaxTitleLen == 200
RecentMessageCount == 8

\* suggested_title.strip('"\'`'): the quote characters
QuoteChars == {"'", "\""}
\* suggested_title.rstrip(".,;:!?")
TrailingPunct == {".", ",", ";", ":", "!", "?"}

\* re.sub(r"^#+\s*", "", s)
StripHeading(t) ==
    IF t # << >> /\ Head(t) = "#"
    THEN LStripChars(LStripChars(t, {"#"}), Whitespace)
    ELSE t

\* lines 88-95: the clean-up of the raw completion
Sanitize(raw) ==
    RStripChars(StripHeading(StripChars(Strip(raw), QuoteChars)), TrailingPunct)

\* what one call of the LLM client can do: fail (no key configured, an
\* exception, a timeout) or return a raw completion
Oversized == [i \in 1..(MaxTitleLen + 1) |-> "b"]
LLMFailures == {<<"fail", "no_key">>, <<"fail", "raise">>, <<"fail", "timeout">>}
UnusableRaw == {<<"raw", T0>>, <<"raw", T2(" ", "!")>>, <<"raw", Oversized>>}
UsableRaw == {<<"raw", T1("b")>>, <<"raw", <<"'", "#", " ", "b", "!", "'">> >>}
LLMOutcomes(mode) ==
    IF mode = "failing" THEN LLMFailures \cup UnusableRaw
    ELSE LLMFailures \cup UnusableRaw \cup UsableRaw

\* the validation without the length limit
ValidateNonEmptyOnly(title) ==
    IF Falsy(title) THEN NoneText ELSE title

\* lines 97-102: the validation of the cleaned title
Validate(title) ==
    IF Falsy(title) \/ Len(title) > MaxTitleLen THEN NoneText ELSE title

\* an exception leaving a function, as its result
Raised == <<"Raised">>

\* the try block catching the timeout only: a missing key is still handled,
\* any other exception of the client leaves the function
suggest_catching_timeout(topic_name, msgs, outcome) ==
    IF msgs = << >> THEN NoneText
    ELSE IF outcome = <<"fail", "raise">> THEN Raised
    ELSE IF outcome[1] = "fail" THEN NoneText
    ELSE Validate(Sanitize(outcome[2]))

\* lines 25-107, given what the client does when called: "except Exception"
\* turns every failure of the client into None
suggest_topic_title(topic_name, msgs, outcome) ==
    IF msgs = << >> THEN NoneText
    ELSE IF outcome[1] = "fail" THEN NoneText
    ELSE Validate(Sanitize(outcome[2]))

(***************************************************************************)
(* SpecSanitize: suggest_topic_title applied to every drawn completion     *)
(***************************************************************************)
MaxRaw == 4

SanChars == {" ", "'", "#", "!", "b"}
\* short completions of every shape, and long ones around the length limit
LongRaw(n) == [i \in 1..n |-> "b"]
SanRaws ==
    SeqsUpTo(SanChars, MaxRaw)
        \cup {LongRaw(MaxTitleLen), LongRaw(MaxTitleLen + 1),
              LongRaw(MaxTitleLen) \o T1("!"), T1(" ") \o LongRaw(MaxTitleLen + 1)}

SanInit ==
    /\ rRaw \in SanRaws
    /\ rPc = "ready"
    /\ rTitle = NoneText
    /\ DriftIdle /\ PipeIdle /\ SimIdle /\ PromptIdle

\* one call with a non-empty message list and a client that answers rRaw
Suggest ==
    /\ rPc = "ready"
    /\ rTitle' = suggest_topic_title(T1("a"), <<T1("c")>>, <<"raw", rRaw>>)
    /\ rPc' = "done"
    /\ UNCHANGED rRaw
    /\ UNCHANGED <<driftVars, pipeVars, simVars, promptVars>>

SanNext == Suggest

SpecSanitize == SanInit /\ [][SanNext]_vars

\* the ids of the stored messages, most recent first
RECURSIVE Descending(_)
Descending(n) == IF n = 0 THEN << >> ELSE <<n>> \o Descending(n - 1)

FirstN(seq, n) == SubSeq(seq, 1, IF Len(seq) < n THEN Len(seq) ELSE n)

\* messages_for_topic(...) matches the topic without regard to case
SameTopic(m, realm, recipient, topic_name) ==
    /\ m.present
    /\ m.realm = realm
    /\ m.stream = recipient
    /\ LowerText(m.topic) = LowerText(topic_name)

\* lines 142-151: the rows the window query selects, by id, most recent
\* first: the topic's messages other than the message itself
WindowIds(store, message, stream_realm, topic_name, count) ==
    FirstN(SelectSeq(Descending(Len(store)),
               LAMBDA i : /\ SameTopic(store[i], stream_realm, message.stream, topic_name)
                          /\ i # message.id),
           count)

\* lines 141-153: the window query against the store as it is now
WindowQuery(store, message, stream_realm, topic_name, count) ==
    LET ids == WindowIds(store, message, stream_realm, topic_name, count)
    IN  [k \in 1..Len(ids) |-> store[ids[k]].content]

\* lines 166-175: the message dicts handed to the prompt
Reverse(seq) == [k \in 1..Len(seq) |-> seq[Len(seq) + 1 - k]]
MessageDicts(recent_messages, content) ==
    Append(SelectSeq(Reverse(recent_messages), LAMBDA c : ~Falsy(c)), content)

\* line 41: messages[-10:]
PromptLimit == 10
\* lines 54-55: the length above which a content is cut
TruncateAt == 500

LastN(seq, n) == IF Len(seq) <= n THEN seq ELSE SubSeq(seq, Len(seq) - n + 1, Len(seq))

Ellipsis == <<".", ".", ".">>

\* the cut without the marker
TruncateSilently(content) ==
    IF Len(content) > TruncateAt THEN SubSeq(content, 1, TruncateAt) ELSE content

\* lines 54-55: content[:500] + "..."
Truncate(content) ==
    IF Len(content) > TruncateAt
    THEN SubSeq(content, 1, TruncateAt) \o Ellipsis
    ELSE content

\* lines 50-56: the entries f"{i}. {content}" written into the prompt, as
\* pairs <<i, content>>
RECURSIVE PromptEntriesFrom(_, _)
PromptEntriesFrom(msgs, i) ==
    IF i > Len(msgs) THEN << >>
    ELSE LET content == Strip(msgs[i])
         IN  (IF ~Falsy(content) THEN <<<<i, Truncate(content)>>>> ELSE << >>)
                 \o PromptEntriesFrom(msgs, i + 1)

\* lines 41-56: the listing of the prompt suggest_topic_title builds
PromptEntries(msgs) == PromptEntriesFrom(LastN(msgs, PromptLimit), 1)

(***************************************************************************)
(* SpecPrompt: the prompt built by check_and_suggest_topic_title and       *)
(* suggest_topic_title for drawn windows, once drift has been flagged      *)
(***************************************************************************)
MaxPromptWindow == 11

\* the k-th most recent message of a window: k characters, so that every
\* entry of a window is told from the others
Entry(k) == [i \in 1..k |-> "m"]
LongText(n) == [i \in 1..n |-> "b"]
\* contents the prompt code treats in a way of their own
SpecialContents ==
    { T0, T1(" "), T3(" ", "a", " "),
      LongText(TruncateAt), LongText(TruncateAt + 1), T1(" ") \o LongText(TruncateAt) }

\* windows as the query returns them, most recent first, with at most one
\* special content among them
PromptWindows ==
    { [k \in 1..n |-> IF k = pos[1] THEN pos[2] ELSE Entry(k)] :
          n \in 0..MaxPromptWindow, pos \in (0..MaxPromptWindow) \X SpecialContents }

PromptInit ==
    /\ pRecent \in PromptWindows
    /\ pContent \in {T1("c")} \cup SpecialContents
    /\ pPc = "ready"
    /\ pPrompt = << >>
    /\ DriftIdle /\ PipeIdle /\ SimIdle /\ SanIdle

\* check_and_suggest_topic_title lines 165-177, then suggest_topic_title
\* lines 37-56
BuildPrompt ==
    /\ pPc = "ready"
    /\ pPrompt' = PromptEntries(MessageDicts(pRecent, pContent))
    /\ pPc' = "done"
    /\ UNCHANGED <<pRecent, pContent>>
    /\ UNCHANGED <<driftVars, pipeVars, simVars, sanVars>>

PromptNext == BuildPrompt

SpecPrompt == PromptInit /\ [][PromptNext]_vars

(***************************************************************************)
(* zerver/worker/topic_title_improver.py                                   *)
(***************************************************************************)
\* all([message_id, stream_id, realm_id, topic_name])
TruthyId(x) == x # NoneId /\ x # 0
TruthyText(t) == t # NoneText /\ ~Falsy(t)
ValidEvent(e) ==
    /\ TruthyId(e.message_id)
    /\ TruthyId(e.stream_id)
    /\ TruthyId(e.realm_id)
    /\ TruthyText(e.topic_name)

\* Message.objects.get(id=...) and Stream.objects.get(id=..., realm_id=...)
MessageExists(store, id) == id \in 1..Len(store) /\ store[id].present
StreamExists(strs, id, realm) ==
    id \in DOMAIN strs /\ strs[id].present /\ strs[id].realm = realm

\* the suggestion sent to every user
NotificationToAll(j) ==
    [realm |-> j.message.realm,
     event |-> [type |-> "topic_title_suggestion",
                message_id |-> j.event.message_id,
                stream_id |-> j.event.stream_id,
                current_topic |-> j.event.topic_name,
                suggested_topic |-> j.suggested],
     users |-> Users]

\* lines 87-93 and 96: the event sent to clients and who receives it
Notification(j) ==
    [realm |-> j.message.realm,
     event |-> [type |-> "topic_title_suggestion",
                message_id |-> j.event.message_id,
                stream_id |-> j.event.stream_id,
                current_topic |-> j.event.topic_name,
                suggested_topic |-> j.suggested],
     users |-> {j.message.sender}]

\* the notification handed to the sink at once, not on commit
SendNow(j, snk) ==
    [job |-> [j EXCEPT !.emitted = @ + 1], sink |-> Append(snk, Notification(j))]

\* line 96: send_event_on_commit registers the notification with the transaction
SendOnCommit(j, snk) ==
    [job |-> [j EXCEPT !.emitted = @ + 1, !.pending = Append(@, Notification(j))],
     sink |-> snk]

\* the LLM phase entered whatever the verdict
IgnoreVerdict(possible_drift) == TRUE

\* lines 162-163: "if not possible_drift: return None"
ProceedOnDrift(possible_drift) == possible_drift

\* consume is left: its locals are gone, what it did is kept for the record
Returned(j) ==
    [j EXCEPT !.message = NoMessage, !.recent = << >>, !.dicts = << >>, !.pending = << >>]

\* lines 35-45: the event is taken and validated; a valid one opens the transaction
Receive(w, e) ==
    /\ pc[w] \in {"idle", "done"}
    /\ e \in queue
    /\ queue' = queue \ {e}
    /\ IF ~ValidEvent(e)
       THEN /\ job' = [job EXCEPT ![w] = [IdleJob EXCEPT !.event = e, !.outcome = "invalid"]]
            /\ pc' = [pc EXCEPT ![w] = "done"]
       ELSE /\ job' = [job EXCEPT ![w] = [IdleJob EXCEPT !.event = e, !.txn = "open",
                                                          !.outcome = "running"]]
            /\ pc' = [pc EXCEPT ![w] = "fetch"]
    /\ UNCHANGED <<messages, streams, sink, llmMode, envLeft>>

\* the fetch with the comparison of the contents left out
FetchNoStaleCheck(w) ==
    /\ pc[w] = "fetch"
    /\ LET e == job[w].event
       IN  IF ~MessageExists(messages, e.message_id)
              \/ ~StreamExists(streams, e.stream_id, e.realm_id)
           THEN /\ job' = [job EXCEPT ![w].outcome = "not_found"]
                /\ pc' = [pc EXCEPT ![w] = "commit"]
           ELSE /\ job' = [job EXCEPT ![w].message = messages[e.message_id]]
                /\ pc' = [pc EXCEPT ![w] = "window"]
    /\ UNCHANGED <<messages, streams, queue, sink, llmMode, envLeft>>

\* the fetch that waits for the edit to be undone when the content differs
FetchWaitingOnStale(w) ==
    /\ pc[w] = "fetch"
    /\ LET e == job[w].event
       IN  IF ~MessageExists(messages, e.message_id)
              \/ ~StreamExists(streams, e.stream_id, e.realm_id)
           THEN /\ job' = [job EXCEPT ![w].outcome = "not_found"]
                /\ pc' = [pc EXCEPT ![w] = "commit"]
           ELSE IF messages[e.message_id].content # e.message_content
           THEN /\ job' = job
                /\ pc' = pc
           ELSE /\ job' = [job EXCEPT ![w].message = messages[e.message_id]]
                /\ pc' = [pc EXCEPT ![w] = "window"]
    /\ UNCHANGED <<messages, streams, queue, sink, llmMode, envLeft>>

\* lines 47-68: the message and the stream are fetched, the content compared
Fetch(w) ==
    /\ pc[w] = "fetch"
    /\ LET e == job[w].event
       IN  IF ~MessageExists(messages, e.message_id)
              \/ ~StreamExists(streams, e.stream_id, e.realm_id)
           THEN /\ job' = [job EXCEPT ![w].outcome = "not_found"]
                /\ pc' = [pc EXCEPT ![w] = "commit"]
           ELSE IF messages[e.message_id].content # e.message_content
           THEN /\ job' = [job EXCEPT ![w].message = messages[e.message_id],
                                      ![w].outcome = "stale"]
                /\ pc' = [pc EXCEPT ![w] = "commit"]
           ELSE /\ job' = [job EXCEPT ![w].message = messages[e.message_id]]
                /\ pc' = [pc EXCEPT ![w] = "window"]
    /\ UNCHANGED <<messages, streams, queue, sink, llmMode, envLeft>>

\* a store access fails with an error other than DoesNotExist: nothing in
\* consume catches it, the transaction is rolled back and consume raises
StoreFault(w) ==
    /\ \/ pc[w] = "fetch"
       \/ pc[w] = "window" /\ ~IsBlank(job[w].message.topic)
    /\ job' = [job EXCEPT ![w] = Returned([job[w] EXCEPT !.txn = "rolled_back",
                                                !.outcome = "raised",
                                                !.fault = "store"])]
    /\ pc' = [pc EXCEPT ![w] = "done"]
    /\ UNCHANGED <<messages, streams, queue, sink, llmMode, envLeft>>

\* check_and_suggest_topic_title, lines 135-163: the topic of the fetched
\* message, the window query and the drift verdict
Window(w) ==
    /\ pc[w] = "window"
    /\ LET m == job[w].message
           topic_name == m.topic
       IN  IF IsBlank(topic_name)
           THEN /\ job' = [job EXCEPT ![w].outcome = "no_topic"]
                /\ pc' = [pc EXCEPT ![w] = "commit"]
           ELSE LET recent == WindowQuery(messages, m, streams[job[w].event.stream_id].realm,
                                          topic_name, RecentMessageCount)
                    drift == detect_topic_drift(topic_name, recent, m.content,
                                                DefaultThreshold, DefaultMinOffTopic)
                IN  IF ~ProceedOnDrift(drift)
                    THEN /\ job' = [job EXCEPT ![w].recent = recent,
                                               ![w].drift = "no_drift",
                                               ![w].outcome = "no_drift"]
                         /\ pc' = [pc EXCEPT ![w] = "commit"]
                    ELSE /\ job' = [job EXCEPT ![w].recent = recent,
                                               ![w].drift =
                                                   IF drift THEN "drift" ELSE "no_drift",
                                               ![w].dicts = MessageDicts(recent, m.content)]
                         /\ pc' = [pc EXCEPT ![w] = "llm"]
    /\ UNCHANGED <<messages, streams, queue, sink, llmMode, envLeft>>

\* check_and_suggest_topic_title, line 177, and consume, lines 77-101: the
\* LLM is called, its answer cleaned, and a suggestion is sent on commit; an
\* exception leaving suggest_topic_title is caught nowhere on its way out
CallLLM(w, outcome) ==
    /\ pc[w] = "llm"
    /\ outcome \in LLMOutcomes(llmMode)
    /\ LET title == suggest_topic_title(job[w].message.topic, job[w].dicts, outcome)
           called == [job[w] EXCEPT !.llm_calls = @ + 1]
       IN  IF title = Raised
           THEN /\ job' = [job EXCEPT ![w] = Returned([called EXCEPT !.txn = "rolled_back",
                                                                      !.outcome = "raised",
                                                                      !.fault = "llm"])]
                /\ sink' = sink
                /\ pc' = [pc EXCEPT ![w] = "done"]
           ELSE IF TruthyText(title)
           THEN LET sent == SendOnCommit([called EXCEPT !.suggested = title], sink)
                IN  /\ job' = [job EXCEPT ![w] = [sent.job EXCEPT !.outcome = "suggestion"]]
                    /\ sink' = sent.sink
                    /\ pc' = [pc EXCEPT ![w] = "commit"]
           ELSE /\ job' = [job EXCEPT ![w] = [called EXCEPT !.suggested = title,
                                                            !.outcome = "no_suggestion"]]
                /\ sink' = sink
                /\ pc' = [pc EXCEPT ![w] = "commit"]
    /\ UNCHANGED <<messages, streams, queue, llmMode, envLeft>>

\* the commit that also renames the topic of the message to the suggestion
CommitRenaming(w) ==
    /\ pc[w] = "commit"
    /\ sink' = sink \o job[w].pending
    /\ job' = [job EXCEPT ![w] = Returned([job[w] EXCEPT !.txn = "committed",
                                                !.delivered = Len(job[w].pending)])]
    /\ pc' = [pc EXCEPT ![w] = "done"]
    /\ messages' =
           IF job[w].pending # << >> /\ MessageExists(messages, job[w].event.message_id)
           THEN [messages EXCEPT ![job[w].event.message_id].topic = job[w].suggested]
           ELSE messages
    /\ UNCHANGED <<streams, queue, llmMode, envLeft>>

\* the with block is left without an exception: the transaction commits and
\* the notifications registered with it are delivered
Commit(w) ==
    /\ pc[w] = "commit"
    /\ sink' = sink \o job[w].pending
    /\ job' = [job EXCEPT ![w] = Returned([job[w] EXCEPT !.txn = "committed",
                                                !.delivered = Len(job[w].pending)])]
    /\ pc' = [pc EXCEPT ![w] = "done"]
    /\ UNCHANGED <<messages, streams, queue, llmMode, envLeft>>

\* the commit itself fails: the transaction is rolled back, what was
\* registered with it is dropped, and the error leaves consume
CommitFault(w) ==
    /\ pc[w] = "commit"
    /\ job' = [job EXCEPT ![w] = Returned([job[w] EXCEPT !.txn = "rolled_back",
                                                !.outcome = "raised",
                                                !.fault = "commit"])]
    /\ pc' = [pc EXCEPT ![w] = "done"]
    /\ UNCHANGED <<messages, streams, queue, sink, llmMode, envLeft>>

(***************************************************************************)
(* The collaborators: the message-send path, edits and deletions           *)
(***************************************************************************)
EventFor(m) ==
    [message_id |-> m.id, stream_id |-> m.stream, realm_id |-> m.realm,
     topic_name |-> m.topic, message_content |-> m.content]

\* a message is sent: it is stored and its event is put on the queue
SendMessage(sender, stream, topic, content) ==
    /\ Len(messages) < MaxMessages
    /\ LET m == [id |-> Len(messages) + 1, present |-> TRUE, content |-> content,
                 topic |-> topic, stream |-> stream, realm |-> streams[stream].realm,
                 sender |-> sender]
       IN  /\ messages' = Append(messages, m)
           /\ queue' = queue \cup {EventFor(m)}
    /\ UNCHANGED <<streams, pc, job, sink, llmMode, envLeft>>

\* a message's content is edited
EditMessage(id, content) ==
    /\ envLeft > 0
    /\ MessageExists(messages, id)
    /\ messages[id].content # content
    /\ messages' = [messages EXCEPT ![id].content = content]
    /\ envLeft' = envLeft - 1
    /\ UNCHANGED <<streams, queue, pc, job, sink, llmMode>>

\* a message is moved to another topic
MoveMessage(id, topic) ==
    /\ envLeft > 0
    /\ MessageExists(messages, id)
    /\ messages[id].topic # topic
    /\ messages' = [messages EXCEPT ![id].topic = topic]
    /\ envLeft' = envLeft - 1
    /\ UNCHANGED <<streams, queue, pc, job, sink, llmMode>>

\* a message is deleted
DeleteMessage(id) ==
    /\ envLeft > 0
    /\ MessageExists(messages, id)
    /\ messages' = [messages EXCEPT ![id].present = FALSE]
    /\ envLeft' = envLeft - 1
    /\ UNCHANGED <<streams, queue, pc, job, sink, llmMode>>

\* a stream is deleted
DeleteStream(id) ==
    /\ envLeft > 0
    /\ streams[id].present
    /\ streams' = [streams EXCEPT ![id].present = FALSE]
    /\ envLeft' = envLeft - 1
    /\ UNCHANGED <<messages, queue, pc, job, sink, llmMode>>

\* an event with a field missing reaches the queue
MalformedEvents ==
    { [NoEvent EXCEPT !.message_id = 1, !.stream_id = 1, !.realm_id = RealmId],
      [NoEvent EXCEPT !.message_id = 1, !.stream_id = 1, !.topic_name = T1("a")] }
DeliverMalformed(e) ==
    /\ envLeft > 0
    /\ e \in MalformedEvents
    /\ queue' = queue \cup {e}
    /\ envLeft' = envLeft - 1
    /\ UNCHANGED <<messages, streams, pc, job, sink, llmMode>>

\* an event that carries all its fields, one of them 0 or the empty string,
\* reaches the queue
FalsyFieldEvents ==
    { [message_id |-> 1, stream_id |-> 1, realm_id |-> RealmId,
       topic_name |-> T0, message_content |-> T1("c")],
      [message_id |-> 0, stream_id |-> 1, realm_id |-> RealmId,
       topic_name |-> T1("a"), message_content |-> T1("c")] }
DeliverFalsy(e) ==
    /\ envLeft > 0
    /\ e \in FalsyFieldEvents
    /\ queue' = queue \cup {e}
    /\ envLeft' = envLeft - 1
    /\ UNCHANGED <<messages, streams, pc, job, sink, llmMode>>

Init ==
    /\ messages = << >>
    /\ streams = [s \in StreamIds |-> [present |-> TRUE, realm |-> RealmId]]
    /\ queue = {}
    /\ pc = [w \in Workers |-> "idle"]
    /\ job = [w \in Workers |-> IdleJob]
    /\ sink = << >>
    /\ llmMode \in {"failing", "free"}
    /\ envLeft = MaxEnv
    /\ DriftIdle /\ SimIdle /\ SanIdle /\ PromptIdle

Next ==
    \/ \E w \in Workers : \E e \in queue : Receive(w, e) /\ UNCHANGED pureVars
    \/ \E w \in Workers : Fetch(w) /\ UNCHANGED pureVars
    \/ \E w \in Workers : Window(w) /\ UNCHANGED pureVars
    \/ \E w \in Workers : \E outcome \in LLMOutcomes("free") :
           CallLLM(w, outcome) /\ UNCHANGED pureVars
    \/ \E w \in Workers : Commit(w) /\ UNCHANGED pureVars
    \/ \E w \in Workers : StoreFault(w) /\ UNCHANGED pureVars
    \/ \E w \in Workers : CommitFault(w) /\ UNCHANGED pureVars
    \/ \E x \in Sendable : SendMessage(x[1], x[2], x[3], x[4]) /\ UNCHANGED pureVars
    \/ \E i \in 1..MaxMessages, c \in Contents : EditMessage(i, c) /\ UNCHANGED pureVars
    \/ \E i \in 1..MaxMessages, t \in Topics : MoveMessage(i, t) /\ UNCHANGED pureVars
    \/ \E i \in 1..MaxMessages : DeleteMessage(i) /\ UNCHANGED pureVars
    \/ \E s \in StreamIds : DeleteStream(s) /\ UNCHANGED pureVars
    \/ \E e \in MalformedEvents : DeliverMalformed(e) /\ UNCHANGED pureVars
    \/ \E e \in FalsyFieldEvents : DeliverFalsy(e) /\ UNCHANGED pureVars

Spec == Init /\ [][Next]_vars

(***************************************************************************)
(* SpecLive: the pipeline with a store that answers and a worker that      *)
(* keeps running: each step of consume that can be taken is taken, and the *)
(* LLM client returns or fails within LLM_TIMEOUT.  The store changes     *)
(* under the worker by sends, edits and deletions of messages, which       *)
(* decide the path an event takes through consume.                         *)
(***************************************************************************)
LiveNext ==
    \/ \E w \in Workers : \E e \in queue : Receive(w, e) /\ UNCHANGED pureVars
    \/ \E w \in Workers : Fetch(w) /\ UNCHANGED pureVars
    \/ \E w \in Workers : Window(w) /\ UNCHANGED pureVars
    \/ \E w \in Workers : \E outcome \in LLMOutcomes("free") :
           CallLLM(w, outcome) /\ UNCHANGED pureVars
    \/ \E w \in Workers : Commit(w) /\ UNCHANGED pureVars
    \/ \E x \in Sendable : SendMessage(x[1], x[2], x[3], x[4]) /\ UNCHANGED pureVars
    \/ \E i \in 1..MaxMessages, c \in Contents : EditMessage(i, c) /\ UNCHANGED pureVars
    \/ \E i \in 1..MaxMessages : DeleteMessage(i) /\ UNCHANGED pureVars
    \/ \E e \in MalformedEvents : DeliverMalformed(e) /\ UNCHANGED pureVars

\* weak fairness of the window step, written out: the step is enabled
\* exactly when the worker is at "window", and it always leaves "window"
WindowRuns(w) ==
    \/ []<>(pc[w] # "window")
    \/ []<><<Window(w) /\ UNCHANGED pureVars>>_vars

WorkerRuns(w) ==
    /\ WF_vars(Fetch(w) /\ UNCHANGED pureVars)
    /\ WindowRuns(w)
    /\ WF_vars(\E outcome \in LLMOutcomes("free") : CallLLM(w, outcome) /\ UNCHANGED pureVars)
    /\ WF_vars(Commit(w) /\ UNCHANGED pureVars)

SpecLive == Init /\ [][LiveNext]_vars /\ \A w \in Workers : WorkerRuns(w)

(***************************************************************************)
(* SpecConcurrent: two workers of the queue process events side by side.   *)
(* The messages are sent before the workers start, so the store does not   *)
(* change while events are processed; the queue may deliver an event more  *)
(* than once, and the LLM gives the same answer whenever it is asked.      *)
(***************************************************************************)
ConcurrentWorkers == {"w1", "w2"}

\* the one answer of the LLM client in a behaviour
AnswerOf(mode) ==
    IF mode = "failing" THEN <<"fail", "timeout">>
    ELSE <<"raw", <<"'", "#", " ", "b", "!", "'">> >>

\* the queue delivers the event of a stored message again
Redeliver(i) ==
    /\ envLeft > 0
    /\ MessageExists(messages, i)
    /\ EventFor(messages[i]) \notin queue
    /\ \E w \in DOMAIN job : job[w].event = EventFor(messages[i])
    /\ queue' = queue \cup {EventFor(messages[i])}
    /\ envLeft' = envLeft - 1
    /\ UNCHANGED <<messages, streams, pc, job, sink, llmMode>>

ConcurrentInit ==
    /\ messages = << >>
    /\ streams = [s \in StreamIds |-> [present |-> TRUE, realm |-> RealmId]]
    /\ queue = {}
    /\ pc = [w \in ConcurrentWorkers |-> "idle"]
    /\ job = [w \in ConcurrentWorkers |-> IdleJob]
    /\ sink = << >>
    /\ llmMode \in {"failing", "free"}
    /\ envLeft = MaxEnv
    /\ DriftIdle /\ SimIdle /\ SanIdle /\ PromptIdle

ConcurrentNext ==
    \/ \E w \in ConcurrentWorkers : \E e \in queue : Receive(w, e) /\ UNCHANGED pureVars
    \/ \E w \in ConcurrentWorkers : Fetch(w) /\ UNCHANGED pureVars
    \/ \E w \in ConcurrentWorkers : Window(w) /\ UNCHANGED pureVars
    \/ \E w \in ConcurrentWorkers : CallLLM(w, AnswerOf(llmMode)) /\ UNCHANGED pureVars
    \/ \E w \in ConcurrentWorkers : Commit(w) /\ UNCHANGED pureVars
    \/ \E x \in Sendable :
           /\ \A w \in ConcurrentWorkers : pc[w] = "idle"
           /\ SendMessage(x[1], x[2], x[3], x[4])
           /\ UNCHANGED pureVars
    \/ \E i \in 1..MaxMessages : Redeliver(i) /\ UNCHANGED pureVars

SpecConcurrent == ConcurrentInit /\ [][ConcurrentNext]_vars

(***************************************************************************)
(* Properties of the pipeline (Spec)                                       *)
(***************************************************************************)
\* what the store would answer to the fetch of worker w's event, now
FetchOk(w) ==
    LET e == job[w].event
    IN  /\ MessageExists(messages, e.message_id)
        /\ StreamExists(streams, e.stream_id, e.realm_id)
        /\ messages[e.message_id].content = e.message_content

Discarded(j) == j.outcome \in {"invalid", "not_found", "stale"}

NothingDone(j) ==
    /\ j.drift = "none"
    /\ j.llm_calls = 0
    /\ j.emitted = 0 /\ j.pending = << >> /\ j.delivered = 0

\* C1: drift evaluation is reached only if the message and the stream exist
\* and the message's current content equals the event's message_content; if
\* one is missing or the content differs, processing ends with no drift
\* evaluation, no LLM call and no notification.
C1_FetchGuardsDrift ==
    /\ [](\A w \in Workers : Discarded(job[w]) => NothingDone(job[w]) /\ pc[w] \in {"commit", "done"})
    /\ [][\A w \in Workers :
            (pc[w] = "fetch" /\ pc'[w] # "fetch")
                => /\ (pc'[w] = "window" => FetchOk(w))
                   /\ (~FetchOk(w) => /\ pc'[w] \in {"commit", "done"}
                                      /\ NothingDone(job'[w])
                                      /\ sink' = sink)]_vars

\* C1 witness: an event whose message was edited after it was queued has been
\* discarded as stale, the message and the stream still being there.
C1_Witness ==
    \E w \in Workers :
        /\ pc[w] = "done"
        /\ job[w].outcome = "stale"
        /\ MessageExists(messages, job[w].event.message_id)
        /\ messages[job[w].event.message_id].content # job[w].event.message_content
        /\ NothingDone(job[w])

\* C2: if the LLM client fails on every call (raises, times out, returns an
\* empty or oversized answer, or no key is configured), no notification is
\* ever emitted, and a consume call that reached the LLM ends with no
\* suggestion and without the client's failure leaving consume.
C2_LLMFailureIsNoSuggestion ==
    llmMode = "failing" =>
        /\ sink = << >>
        /\ \A w \in Workers :
            /\ job[w].emitted = 0 /\ job[w].pending = << >> /\ job[w].delivered = 0
            /\ job[w].suggested = NoneText
            /\ job[w].fault # "llm"
            /\ job[w].llm_calls > 0 => /\ pc[w] \in {"commit", "done"}
                                       /\ job[w].outcome \in {"no_suggestion", "raised"}
                                       /\ job[w].outcome = "raised" => job[w].fault = "commit"

\* C2 witness: drift was flagged, the LLM was called and failed, and consume
\* has returned normally with nothing sent.
C2_Witness ==
    /\ llmMode = "failing"
    /\ \E w \in Workers :
        /\ pc[w] = "done"
        /\ job[w].llm_calls = 1
        /\ job[w].outcome = "no_suggestion"
        /\ job[w].txn = "committed"
    /\ sink = << >>

\* C3 as stated: no step of the pipeline ever raises back to its caller, for
\* every behaviour of the collaborators, a store failure other than not-found
\* included: consume always returns normally.
C3_ConsumeNeverRaises ==
    \A w \in Workers : job[w].outcome # "raised"

\* C4: the LLM client is called only after detect_topic_drift has returned
\* true for the event; when the verdict is false, processing ends with no LLM
\* call and no notification.
C4_LLMOnlyOnDrift ==
    \A w \in Workers :
        /\ (pc[w] = "llm" \/ job[w].llm_calls > 0) => job[w].drift = "drift"
        /\ job[w].drift = "no_drift" =>
               /\ pc[w] \in {"commit", "done"}
               /\ job[w].llm_calls = 0
               /\ job[w].emitted = 0 /\ job[w].pending = << >> /\ job[w].delivered = 0

\* C4 witness: the LLM has been called for an event whose drift verdict was true.
C4_Witness ==
    \E w \in Workers : job[w].llm_calls = 1 /\ job[w].drift = "drift"

\* the registered and the delivered notifications
AllNotifications ==
    Range(sink) \cup UNION {Range(job[w].pending) : w \in Workers}

\* C5: processing one event emits at most one notification, and emits one
\* exactly when a usable suggestion was produced; its recipients are exactly
\* the user who sent the triggering message.
C5_OneNotificationToSender ==
    /\ \A w \in Workers :
        /\ job[w].emitted <= 1
        /\ job[w].delivered <= job[w].emitted
        /\ pc[w] \in {"commit", "done"} =>
               (job[w].emitted = 1 <=>
                   /\ job[w].suggested # NoneText
                   /\ job[w].suggested # << >>
                   /\ Len(job[w].suggested) <= MaxTitleLen)
    /\ \A n \in AllNotifications :
        /\ n.event.message_id \in 1..Len(messages)
        /\ n.users = {messages[n.event.message_id].sender}

\* C5 witness: a suggestion was delivered for a message of u1 in a topic where
\* u2 has written too; only u1 receives it.
C5_Witness ==
    /\ Len(sink) = 1
    /\ sink[1].users = {"u1"}
    /\ \E i \in 1..Len(messages) :
        /\ messages[i].sender = "u2"
        /\ messages[i].topic = messages[sink[1].event.message_id].topic
    /\ \E w \in Workers : job[w].emitted = 1 /\ job[w].delivered = 1

\* C6: a notification reaches the sink only in the commit of the transaction
\* that enclosed the fetch, the staleness check and the window read; a
\* transaction that is rolled back delivers nothing.
C6_DeliveredOnCommitOnly ==
    [][/\ sink' # sink =>
            \E w \in Workers :
                /\ job[w].txn = "open" /\ job'[w].txn = "committed"
                /\ sink' = sink \o job[w].pending
       /\ \A w \in Workers :
            (job[w].txn = "open" /\ job'[w].txn = "rolled_back")
                => sink' = sink /\ job'[w].delivered = 0]_vars

\* C6 witness: a suggestion was registered, the commit failed, and nothing
\* was delivered.
C6_Witness ==
    \E w \in Workers :
        /\ job[w].emitted = 1
        /\ job[w].txn = "rolled_back"
        /\ job[w].delivered = 0
        /\ sink = << >>

(***************************************************************************)
(* Properties of detect_topic_drift (SpecDrift)                            *)
(***************************************************************************)
\* stated on the characters, not through the program's own blank test
AllWhitespace(t) == \A i \in 1..Len(t) : t[i] \in Whitespace

\* the window entries that count: not blank, similarity to the title below the threshold
OffTopicEntries ==
    {i \in 1..Len(dWindow) :
        /\ ~AllWhitespace(dWindow[i])
        /\ Below(calculate_word_overlap(dTitle, dWindow[i]), dThr)}

NewBelowThreshold == Below(calculate_word_overlap(dTitle, dNew), dThr)

AllBlankWindow == Len(dWindow) >= 1 /\ \A i \in 1..Len(dWindow) : AllWhitespace(dWindow[i])

\* C7: detect_topic_drift returns false for every empty or whitespace-only
\* topic title, whatever the window, the new message and the configuration.
C7_BlankTitleNeverDrifts ==
    (dPc = "done" /\ AllWhitespace(dTitle)) => dResult = FALSE

\* C7 witness: a whitespace-only title evaluated against a window and a new
\* message that would reach the required count for any other title.
C7_Witness ==
    /\ dPc = "done"
    /\ dTitle = T1(" ")
    /\ dThr > 0 /\ dMin >= 1
    /\ Cardinality(OffTopicEntries) + 1 >= dMin
    /\ ~AllWhitespace(dNew)
    /\ dResult = FALSE

\* C8: whenever similarity(title, newMessage) meets or exceeds the threshold,
\* detect_topic_drift returns false, whatever the window and minOffTopicMessages.
C8_OnTopicVeto ==
    (dPc = "done" /\ AtLeast(calculate_word_overlap(dTitle, dNew), dThr))
        => dResult = FALSE

\* C8 witness: the new message meets the threshold exactly (1/2 against 0.50)
\* while every window entry is off-topic and alone reaches the required count.
C8_Witness ==
    /\ dPc = "done"
    /\ ~AllWhitespace(dTitle)
    /\ dThr = 50
    /\ calculate_word_overlap(dTitle, dNew) = <<1, 2>>
    /\ Len(dWindow) >= 2
    /\ Cardinality(OffTopicEntries) = Len(dWindow)
    /\ dMin <= Len(dWindow)
    /\ dResult = FALSE

\* C9 as stated: for a non-blank title and a new message below the threshold,
\* the verdict is true iff (off-topic non-blank window entries) + 1 >= minOffTopicMessages.
C9_Original ==
    (dPc = "done" /\ ~AllWhitespace(dTitle) /\ NewBelowThreshold)
        => (dResult = (Cardinality(OffTopicEntries) + 1 >= dMin))

\* C9 as amended: the same, unless the window is empty and the new message is
\* the empty string, where the verdict is false whatever minOffTopicMessages is.
C9_CountDecides ==
    (dPc = "done" /\ ~AllWhitespace(dTitle) /\ NewBelowThreshold)
        => IF dWindow = << >> /\ dNew = << >>
           THEN dResult = FALSE
           ELSE dResult = (Cardinality(OffTopicEntries) + 1 >= dMin)

\* C9 witness: drift flagged by one off-topic window entry plus the new
\* message, counted once, with the default configuration.
C9_Witness ==
    /\ dPc = "done"
    /\ ~AllWhitespace(dTitle)
    /\ NewBelowThreshold
    /\ dThr = DefaultThreshold /\ dMin = DefaultMinOffTopic
    /\ Cardinality(OffTopicEntries) = 1
    /\ dResult = TRUE

\* C10 as stated: an all-blank window gives the verdict of the same call with
\* an empty window, for every title, new message and configuration.
C10_Original ==
    (dPc = "done" /\ AllBlankWindow)
        => dResult = detect_topic_drift(dTitle, << >>, dNew, dThr, dMin)

\* C10 as amended: an all-blank window gives the verdict of the same call with
\* an empty window, except when the new message is the empty string and
\* minOffTopicMessages is at most 1.
C10_BlankWindowAsEmpty ==
    (dPc = "done" /\ AllBlankWindow /\ ~(dNew = << >> /\ dMin <= 1))
        => dResult = detect_topic_drift(dTitle, << >>, dNew, dThr, dMin)

\* C10 witness: an all-blank window, with drift flagged on the new message alone.
C10_Witness ==
    /\ dPc = "done"
    /\ AllBlankWindow
    /\ T1(" ") \in Range(dWindow)
    /\ dNew # << >>
    /\ dResult = TRUE

(***************************************************************************)
(* Properties of calculate_word_overlap (SpecSim)                          *)
(***************************************************************************)
\* the words of a text read off its characters: the maximal runs of word
\* characters, lowercased
IsWordRun(t, i, j) ==
    /\ \A k \in i..j : t[k] \in WordChars
    /\ (i = 1 \/ t[i - 1] \notin WordChars)
    /\ (j = Len(t) \/ t[j + 1] \notin WordChars)
Tokens(t) ==
    {LowerText(SubSeq(t, i, j)) : <<i, j>> \in
        {ij \in (1..Len(t)) \X (1..Len(t)) : ij[1] <= ij[2] /\ IsWordRun(t, ij[1], ij[2])}}

\* two scores are the same number
SameScore(a, b) == a[1] * b[2] = b[1] * a[2]

\* C11: calculate_word_overlap is symmetric: similarity(x, y) = similarity(y, x).
C11_Symmetric ==
    sPc = "done" => SameScore(sXY, sYX)

\* C11 witness: two texts with different numbers of words that share one,
\* scored in both orders.
C11_Witness ==
    /\ sPc = "done"
    /\ Cardinality(Tokens(sX)) = 2
    /\ Cardinality(Tokens(sY)) = 1
    /\ sXY = <<1, 2>>
    /\ sYX = <<1, 2>>

\* C12: the score is |A \cap B| / |A \cup B| over the sets of normalized
\* tokens, a value in [0, 1]; 0 when either set is empty or the sets are
\* disjoint; 1 exactly when the sets are equal and non-empty; repeating a word
\* in a text does not change the score.
C12_Jaccard ==
    sPc = "done" =>
        LET A == Tokens(sX)
            B == Tokens(sY)
        IN  /\ sXY[2] > 0 /\ 0 <= sXY[1] /\ sXY[1] <= sXY[2]
            /\ (A = {} \/ B = {} \/ A \cap B = {}) => sXY[1] = 0
            /\ (A # {} /\ B # {})
                   => sXY[1] * Cardinality(A \cup B) = Cardinality(A \cap B) * sXY[2]
            /\ (sXY[1] = sXY[2]) <=> (A = B /\ A # {})
            /\ SameScore(calculate_word_overlap(sX \o <<" ">> \o sX, sY), sXY)

\* C12 witness: a text that repeats its one word scores 1 against that word.
C12_Witness ==
    /\ sPc = "done"
    /\ sX = T3("a", " ", "A")
    /\ sY = T1("a")
    /\ sXY = <<1, 1>>

(***************************************************************************)
(* Properties of the title clean-up (SpecSanitize)                         *)
(***************************************************************************)
FirstChar(t) == t[1]
LastChar(t) == t[Len(t)]

FullySanitized(t) ==
    t # << >> =>
        /\ FirstChar(t) \notin Whitespace /\ LastChar(t) \notin Whitespace
        /\ FirstChar(t) \notin QuoteChars /\ LastChar(t) \notin QuoteChars
        /\ FirstChar(t) # "#"
        /\ LastChar(t) \notin TrailingPunct

\* C13: every suggestion returned by suggest_topic_title is fully sanitized:
\* no leading or trailing whitespace, no leading or trailing quote character,
\* no leading heading marker, no trailing punctuation character.
C13_FullySanitized ==
    (rPc = "done" /\ rTitle # NoneText) => FullySanitized(rTitle)

(***************************************************************************)
(* Properties of the suggestion's validation (Spec)                        *)
(***************************************************************************)
WellFormedTitle(t) == t # NoneText /\ Len(t) >= 1 /\ Len(t) <= MaxTitleLen

UnusableAnswer(outcome) ==
    /\ outcome[1] = "raw"
    /\ Sanitize(outcome[2]) = << >> \/ Len(Sanitize(outcome[2])) > MaxTitleLen

\* every suggestion a worker holds and every notification registered or
\* delivered carries a well-formed title
SuggestionsWellFormed ==
    /\ \A w \in DOMAIN job :
           /\ job[w].suggested # NoneText => WellFormedTitle(job[w].suggested)
           /\ \A k \in 1..Len(job[w].pending) :
                  WellFormedTitle(job[w].pending[k].event.suggested_topic)
           /\ job[w].emitted > 0 => job[w].suggested # NoneText
    /\ \A k \in 1..Len(sink) : WellFormedTitle(sink[k].event.suggested_topic)

\* a worker about to call the LLM gets no suggestion from any unusable answer
UnusableGivesNone ==
    \A w \in DOMAIN job :
        pc[w] = "llm" =>
            \A outcome \in LLMOutcomes("free") :
                UnusableAnswer(outcome) =>
                    suggest_topic_title(job[w].message.topic, job[w].dicts, outcome)
                        = NoneText

\* a worker that got no suggestion has registered and delivered nothing
NoSuggestionNoNotification ==
    \A w \in DOMAIN job :
        job[w].suggested = NoneText =>
            (job[w].emitted = 0 /\ job[w].pending = << >> /\ job[w].delivered = 0)

\* C14: every suggestion returned by suggest_topic_title, and the suggested
\* topic of every emitted notification, is a non-empty string of at most 200
\* characters; a raw response whose sanitized form is empty or longer than
\* 200 characters yields no suggestion and no notification.
C14_SuggestionWellFormed ==
    /\ SuggestionsWellFormed
    /\ UnusableGivesNone
    /\ NoSuggestionNoNotification

\* C14 witness: the client has answered once for an event, and the cleaned
\* answer has been delivered as the suggested topic of a notification.
C14_Witness ==
    /\ Len(sink) = 1
    /\ sink[1].event.suggested_topic = T1("b")
    /\ \E w \in DOMAIN job : job[w].llm_calls = 1 /\ job[w].delivered = 1

(***************************************************************************)
(* Properties of the event's validation (Spec)                             *)
(***************************************************************************)
FieldMissing(e) ==
    \/ e.message_id = NoneId
    \/ e.stream_id = NoneId
    \/ e.realm_id = NoneId
    \/ e.topic_name = NoneText

\* C15: consume discards an event as invalid, before any store access,
\* exactly when one of message id, stream id, realm id and topic title is
\* missing from the event; an event carrying all four, an empty title or an
\* id of 0 included, passes validation and proceeds to the fetch.
C15_InvalidIffMissing ==
    \A w \in DOMAIN job :
        job[w].outcome # "none" =>
            /\ job[w].outcome = "invalid" <=> FieldMissing(job[w].event)
            /\ job[w].outcome = "invalid" => (job[w].txn = "none" /\ NothingDone(job[w]))

(***************************************************************************)
(* Progress of one event (SpecLive)                                        *)
(***************************************************************************)
\* rejected as invalid, rejected as not found or stale, done with no drift,
\* done with a suggestion, done with no suggestion
TerminalOutcomes ==
    {"invalid", "not_found", "stale", "no_topic", "no_drift", "suggestion", "no_suggestion"}

Busy(w) == pc[w] \in {"fetch", "window", "llm", "commit"}
Finished(w) == pc[w] = "done" /\ job[w].outcome \in TerminalOutcomes

\* a worker is either at rest, in the middle of an event, or through with it
\* in one terminal state
OneTerminalState ==
    \A w \in Workers :
        /\ pc[w] = "idle" => job[w].outcome = "none"
        /\ Busy(w) => job[w].outcome \notin {"none", "invalid"}
        /\ pc[w] = "done" => Finished(w)

\* C16: every event a worker dequeues eventually reaches exactly one terminal
\* state (invalid, not found or stale, no drift, suggestion, no suggestion),
\* provided the store answers and the LLM call returns or fails within its
\* timeout; the worker is then free to take the next event.
C16_EventReachesTerminal ==
    /\ []OneTerminalState
    /\ \A w \in Workers : Busy(w) ~> Finished(w)
    /\ \A w \in Workers :
           [](Finished(w) /\ queue # {}
                  => ENABLED (\E e \in queue : Receive(w, e) /\ UNCHANGED pureVars))

\* C16 witness: a worker is through with a second event, which ended with
\* no suggestion after the LLM was called, and another event is waiting.
C16_Witness ==
    \E w \in Workers :
        /\ Finished(w)
        /\ job[w].outcome = "no_suggestion"
        /\ job[w].llm_calls = 1
        /\ job[w].event.message_id = 2
        /\ queue # {}

(***************************************************************************)
(* Effects of consume on the store (SpecConcurrent)                        *)
(***************************************************************************)
\* a step in which some worker moves leaves every message and stream as it was
WorkerStepsReadOnly ==
    (\E w \in DOMAIN job : pc'[w] # pc[w] \/ job'[w] # job[w])
        => (messages' = messages /\ streams' = streams)

\* what processing an event came to
Result(j) == <<j.outcome, j.drift, j.suggested, j.emitted, j.delivered, j.txn>>

\* the events processed to the end so far: one each of w1 and w2, and the
\* notifications delivered for them
SameEventSameResult ==
    /\ \A w1 \in DOMAIN job : \A w2 \in DOMAIN job :
           (pc[w1] = "done" /\ pc[w2] = "done" /\ job[w1].event = job[w2].event)
               => Result(job[w1]) = Result(job[w2])
    /\ \A k1 \in 1..Len(sink) : \A k2 \in 1..Len(sink) :
           sink[k1].event.message_id = sink[k2].event.message_id => sink[k1] = sink[k2]

\* C17: processing an event is read-only on the message store: consume
\* changes no message, topic or stream, so processing the same event again
\* against an unchanged store and the same LLM answer reaches the same outcome
\* and at worst emits a duplicate of the same notification, also when several
\* workers process events concurrently.
C17_ReadOnlyIdempotent ==
    /\ [][WorkerStepsReadOnly]_vars
    /\ []SameEventSameResult

\* C17 witness: both workers have processed the event of the same message and
\* the same notification has been delivered twice.
C17_Witness ==
    /\ pc["w1"] = "done" /\ pc["w2"] = "done"
    /\ job["w1"].event = job["w2"].event
    /\ job["w1"].outcome = "suggestion"
    /\ Len(sink) = 2
    /\ sink[1] = sink[2]

(***************************************************************************)
(* Properties of the prompt (SpecPrompt)                                   *)
(***************************************************************************)
\* how a message is to appear in the prompt
Shown(t) == IF Len(t) > TruncateAt THEN SubSeq(t, 1, TruncateAt) \o Ellipsis ELSE t

\* the texts listed in the prompt, in the order listed
ListedTexts == [k \in 1..Len(pPrompt) |-> pPrompt[k][2]]

\* the window, oldest first
OldestFirst == [k \in 1..Len(pRecent) |-> pRecent[Len(pRecent) + 1 - k]]

\* C18 as stated: the prompt lists the last 10 window messages, or all of
\* them if there are fewer, oldest first, followed by the triggering message,
\* which is always listed; a listed message longer than 500 characters
\* appears as its first 500 characters followed by "...", a shorter one
\* unchanged.
C18_Original ==
    pPc = "done" =>
        LET shownWindow == LastN(OldestFirst, PromptLimit)
        IN  ListedTexts = [k \in 1..Len(shownWindow) |-> Shown(shownWindow[k])]
                              \o <<Shown(pContent)>>

\* the window messages that are not the empty string, oldest first, followed
\* by the triggering message
Handed ==
    LET kept == {k \in 1..Len(OldestFirst) : OldestFirst[k] # << >>}
        Nth(n) == CHOOSE k \in kept : Cardinality({j \in kept : j < k}) = n - 1
    IN  [n \in 1..Cardinality(kept) |-> OldestFirst[Nth(n)]] \o <<pContent>>

\* C18: of the non-empty window messages, oldest first, followed by the
\* triggering message, the prompt takes the last 10 and lists, in that order
\* and numbered by their place among the 10, those that are not blank, each
\* stripped of surrounding whitespace; the triggering message comes last and
\* is listed unless it is blank; a stripped content longer than 500 characters
\* appears as its first 500 characters followed by "...", a shorter one as
\* stripped.
C18_PromptListing ==
    pPc = "done" =>
        LET first == IF Len(Handed) > PromptLimit THEN Len(Handed) - PromptLimit ELSE 0
            Places == {k \in (first + 1)..Len(Handed) : ~IsBlank(Handed[k])}
        IN  /\ Len(pPrompt) = Cardinality(Places)
            /\ \A k \in Places :
                   \E n \in 1..Len(pPrompt) :
                       pPrompt[n] = <<k - first, Shown(Strip(Handed[k]))>>
            /\ \A n \in 1..(Len(pPrompt) - 1) : pPrompt[n][1] < pPrompt[n + 1][1]
            /\ ~IsBlank(pContent) =>
                   pPrompt[Len(pPrompt)] = <<Len(Handed) - first, Shown(Strip(pContent))>>

\* C18 witness: a window of 11 messages and a triggering message of more than
\* 500 characters: ten entries are listed, the last one cut and marked.
C18_Witness ==
    /\ pPc = "done"
    /\ Len(pRecent) = MaxPromptWindow
    /\ \A k \in 1..Len(pRecent) : ~IsBlank(pRecent[k])
    /\ Len(pContent) = TruncateAt + 1
    /\ Len(pPrompt) = PromptLimit
    /\ pPrompt[PromptLimit] = <<PromptLimit, LongText(TruncateAt) \o Ellipsis>>

(***************************************************************************)
(* Properties of the notification's contents (Spec)                        *)
(***************************************************************************)
\* C19: the current topic carried in an emitted notification is the topic
\* title that drift was evaluated against and whose window was read, and the
\* stream id it carries is the stream the message is in, also when the
\* message's topic or stream is changed between the event being enqueued and
\* the worker processing it.
C19_NotificationNamesEvaluatedTopic ==
    \A w \in DOMAIN job :
        \A k \in 1..Len(job[w].pending) :
            /\ job[w].pending[k].event.current_topic = job[w].message.topic
            /\ job[w].pending[k].event.stream_id = job[w].message.stream

(***************************************************************************)
(* Properties of the window read (Spec)                                    *)
(***************************************************************************)
\* worker w reads the window in this step
ReadsWindow(w) ==
    /\ pc[w] = "window"
    /\ pc'[w] \in {"commit", "llm"}
    /\ job'[w].drift # "none"

\* the ids of the messages in the window worker w reads now
WindowRead(w) ==
    Range(WindowIds(messages, job[w].message, streams[job[w].event.stream_id].realm,
                    job[w].message.topic, RecentMessageCount))

\* C20: the messages handed to the prompt are in chronological order with the
\* most recent last: every window message used for an event was sent before
\* that event's triggering message, also when further messages are sent to
\* the same topic between the event being enqueued and the worker processing
\* it.
C20_WindowBeforeTrigger ==
    [][\A w \in DOMAIN job :
           ReadsWindow(w) => \A i \in WindowRead(w) : i < job[w].message.id]_vars

====
